---- MODULE Spec2Model ----
(***************************************************************************)
(* Model of src/geometry/interaction_groups.rs: the InteractionGroups      *)
(* value type (five u32 fields), its constructors and builders, and the    *)
(* pairwise predicate InteractionGroups::test.                             *)
(*                                                                         *)
(* A u32 is modelled as the set of positions of its bits that are 1, a     *)
(* subset of 0..31: bitwise `&` is intersection, `!= 0` is non-emptiness   *)
(* and `==` on u32 is equality of the sets.                                *)
(***************************************************************************)
EXTENDS Integers, FiniteSets, Sequences, TLC

VARIABLES a, b, op, allowed

vars == <<a, b, op, allowed>>

\* ------------------------------------------------------------------ u32
\* Width of the fields (u32).
U32_BITS == 32

\* u32::MAX: every bit set.
U32_MAX == 0 .. (U32_BITS - 1)

\* The u32 written as the integer literal n (n < 2^31).
Lit(n) == {i \in 0 .. (U32_BITS - 2) : (n \div (2 ^ i)) % 2 = 1}

\* x & y
BitAnd(x, y) == x \cap y

\* ------------------------------------------------------------ the type
\* InteractionGroups::new
new(memberships, filter, belongs_to_with_grouping, collides_with_with_grouping, belongs_to_grouping) ==
    [memberships |-> memberships,
     filter |-> filter,
     belongs_to_with_grouping |-> belongs_to_with_grouping,
     collides_with_with_grouping |-> collides_with_with_grouping,
     belongs_to_grouping |-> belongs_to_grouping]

\* all with an empty grouping filter.
all_empty_grouping_filter == new(U32_MAX, U32_MAX, U32_MAX, Lit(0), U32_MAX)

\* InteractionGroups::all
all == new(U32_MAX, U32_MAX, U32_MAX, U32_MAX, U32_MAX)

\* none with the global masks of all.
none_open_global == new(U32_MAX, U32_MAX, Lit(0), Lit(0), Lit(0))

\* InteractionGroups::none
none == new(Lit(0), Lit(0), Lit(0), Lit(0), Lit(0))

\* with_memberships that also overwrites the filter.
with_memberships_both(self, memberships) ==
    [self EXCEPT !.memberships = memberships, !.filter = memberships]

\* InteractionGroups::with_memberships
with_memberships(self, memberships) == [self EXCEPT !.memberships = memberships]

\* InteractionGroups::with_filter
with_filter(self, filter) == [self EXCEPT !.filter = filter]

\* test in which a shared grouping replaces the global test.
test_grouping_replaces(self, rhs) ==
    IF self.belongs_to_grouping = rhs.belongs_to_grouping
    THEN /\ BitAnd(self.belongs_to_with_grouping, rhs.collides_with_with_grouping) # Lit(0)
         /\ BitAnd(rhs.belongs_to_with_grouping, self.collides_with_with_grouping) # Lit(0)
    ELSE /\ BitAnd(self.memberships, rhs.filter) # Lit(0)
         /\ BitAnd(rhs.memberships, self.filter) # Lit(0)

\* test that asks only for the consent of rhs.
test_one_way(self, rhs) ==
    /\ BitAnd(self.memberships, rhs.filter) # Lit(0)
    /\ \/ self.belongs_to_grouping # rhs.belongs_to_grouping
       \/ /\ self.belongs_to_grouping = rhs.belongs_to_grouping
          /\ BitAnd(self.belongs_to_with_grouping, rhs.collides_with_with_grouping) # Lit(0)

\* test that ignores the filter of rhs.
test_ignores_rhs_filter(self, rhs) ==
    /\ self.memberships # Lit(0)
    /\ BitAnd(rhs.memberships, self.filter) # Lit(0)
    /\ \/ self.belongs_to_grouping # rhs.belongs_to_grouping
       \/ /\ self.belongs_to_grouping = rhs.belongs_to_grouping
          /\ BitAnd(self.belongs_to_with_grouping, rhs.collides_with_with_grouping) # Lit(0)
          /\ BitAnd(rhs.belongs_to_with_grouping, self.collides_with_with_grouping) # Lit(0)

\* test that applies the grouping test whatever the two groupings are.
test_always_grouping(self, rhs) ==
    /\ BitAnd(self.memberships, rhs.filter) # Lit(0)
    /\ BitAnd(rhs.memberships, self.filter) # Lit(0)
    /\ BitAnd(self.belongs_to_with_grouping, rhs.collides_with_with_grouping) # Lit(0)
    /\ BitAnd(rhs.belongs_to_with_grouping, self.collides_with_with_grouping) # Lit(0)

\* InteractionGroups::test
test(self, rhs) ==
    /\ BitAnd(self.memberships, rhs.filter) # Lit(0)
    /\ BitAnd(rhs.memberships, self.filter) # Lit(0)
    /\ \/ self.belongs_to_grouping # rhs.belongs_to_grouping
       \/ /\ self.belongs_to_grouping = rhs.belongs_to_grouping
          /\ BitAnd(self.belongs_to_with_grouping, rhs.collides_with_with_grouping) # Lit(0)
          /\ BitAnd(rhs.belongs_to_with_grouping, self.collides_with_with_grouping) # Lit(0)

\* default as a derived Default would give it: every field zero.
default_derived == none

\* <InteractionGroups as Default>::default
default == all

\* -------------------------------------------------------------- inputs
\* Highest bit position (exclusive) of the single-bit masks given as inputs.
MaxBit == 2

\* Highest grouping id given as an input.
MaxGroupingId == 1

\* Bit masks given to new, with_memberships and with_filter: the empty mask
\* and the single-bit masks 0b01, 0b10, ...
Masks == {Lit(0)} \cup {{i} : i \in 0 .. (MaxBit - 1)}

\* Grouping ids given to new.
GroupingIds == {Lit(g) : g \in 1 .. MaxGroupingId} \cup {U32_MAX}

\* The filters a caller builds with new.
InputFilters ==
    {new(m, f, bw, cw, bg) : m \in Masks, f \in Masks, bw \in Masks,
                             cw \in Masks, bg \in GroupingIds}

\* The filters of the concrete scenarios.
S1 == new(Lit(1), Lit(1), Lit(0), Lit(0), Lit(0))
S2a == new(Lit(1), Lit(2), Lit(0), Lit(0), Lit(0))
S2b == new(Lit(2), Lit(1), Lit(0), Lit(0), Lit(0))
S3b == new(Lit(2), Lit(2), Lit(0), Lit(0), Lit(0))
S4 == new(Lit(255), Lit(255), Lit(1), Lit(2), Lit(1))
S5b == new(Lit(255), Lit(255), Lit(1), Lit(2), Lit(2))

ScenarioFilters == {S1, S2a, S2b, S3b, S4, S5b}

\* ------------------------------------------------------------- actions
\* `a` is the filter a caller holds and rebuilds fluently, `b` the filter of
\* the other entity of the pair; `op` names the last operation and `allowed`
\* holds the value the last call of test returned.
Init ==
    /\ a \in InputFilters
    /\ b \in InputFilters \cup {all, none}
    /\ op = "new"
    /\ allowed = FALSE

All ==
    /\ a' = all
    /\ op' = "all"
    /\ allowed' = FALSE
    /\ UNCHANGED b

None ==
    /\ a' = none
    /\ op' = "none"
    /\ allowed' = FALSE
    /\ UNCHANGED b

Default ==
    /\ a' = default
    /\ op' = "default"
    /\ allowed' = FALSE
    /\ UNCHANGED b

WithMemberships(m) ==
    /\ a' = with_memberships(a, m)
    /\ op' = "with_memberships"
    /\ allowed' = FALSE
    /\ UNCHANGED b

WithFilter(f) ==
    /\ a' = with_filter(a, f)
    /\ op' = "with_filter"
    /\ allowed' = FALSE
    /\ UNCHANGED b

\* a.test(b)
TestAB ==
    /\ allowed' = test(a, b)
    /\ op' = "test_ab"
    /\ UNCHANGED <<a, b>>

\* b.test(a)
TestBA ==
    /\ allowed' = test(b, a)
    /\ op' = "test_ba"
    /\ UNCHANGED <<a, b>>

Next ==
    \/ All
    \/ None
    \/ Default
    \/ \E m \in Masks : WithMemberships(m)
    \/ \E f \in Masks : WithFilter(f)
    \/ TestAB
    \/ TestBA

Spec == Init /\ [][Next]_vars

\* The same operations, started from the filters of the concrete scenarios.
InitScenarios ==
    /\ a \in ScenarioFilters
    /\ b \in ScenarioFilters
    /\ op = "new"
    /\ allowed = FALSE

SpecScenarios == InitScenarios /\ [][Next]_vars

\* ------------------------------------------------------------ properties
Tested == op \in {"test_ab", "test_ba"}

\* The receiver and the argument of the last call of test.
Self == IF op = "test_ba" THEN b ELSE a
Rhs == IF op = "test_ba" THEN a ELSE b

\* The mutual-consent test on the global fields, as the specification writes it.
GlobalConsent(x, y) ==
    /\ BitAnd(x.memberships, y.filter) # Lit(0)
    /\ BitAnd(y.memberships, x.filter) # Lit(0)

\* The mutual-consent test on the grouping-scoped fields.
GroupingConsent(x, y) ==
    /\ BitAnd(x.belongs_to_with_grouping, y.collides_with_with_grouping) # Lit(0)
    /\ BitAnd(y.belongs_to_with_grouping, x.collides_with_with_grouping) # Lit(0)

SameGrouping(x, y) == x.belongs_to_grouping = y.belongs_to_grouping

AllFieldsAre(x, v) ==
    /\ x.memberships = v
    /\ x.filter = v
    /\ x.belongs_to_with_grouping = v
    /\ x.collides_with_with_grouping = v
    /\ x.belongs_to_grouping = v

C2_TestSymmetric ==
    [][((op = "test_ab" /\ op' = "test_ba") \/ (op = "test_ba" /\ op' = "test_ab"))
          => (a' = a /\ b' = b /\ allowed' = allowed)]_vars

\* test(b, a) allowed a pair of filters that differ in every mask.
C2_Witness ==
    /\ op = "test_ba"
    /\ allowed
    /\ a.memberships # b.memberships
    /\ a.filter # b.filter
    /\ a.memberships # a.filter
    /\ a.belongs_to_with_grouping # b.belongs_to_with_grouping

\* C3: none() has all five fields 0 and interacts with nothing: a test with
\* none() on either side is false, none() and all() included on the other.
C3_NoneInteractsWithNothing ==
    /\ op = "none" => AllFieldsAre(a, Lit(0))
    /\ (Tested /\ (a = none \/ b = none)) => ~allowed

\* none() was tested against all() and was refused.
C3_Witness ==
    /\ op = "test_ab"
    /\ a = none
    /\ AllFieldsAre(a, Lit(0))
    /\ b = all
    /\ ~allowed

\* C4: scenario 1, test(new(1, 1, 0, 0, 0), new(1, 1, 0, 0, 0)), and scenario
\* 2, test(new(1, 2, 0, 0, 0), new(2, 1, 0, 0, 0)), are both true.
C4_ZeroGroupingScenariosAllowed ==
    /\ (op = "test_ab" /\ a = S1 /\ b = S1) => allowed
    /\ (op = "test_ab" /\ a = S2a /\ b = S2b) => allowed

OpenToAll(x) ==
    /\ x.memberships # Lit(0)
    /\ x.filter # Lit(0)
    /\ \/ x.belongs_to_grouping # U32_MAX
       \/ /\ x.belongs_to_with_grouping # Lit(0)
          /\ x.collides_with_with_grouping # Lit(0)

C7_TestIsGlobalOnly ==
    Tested => allowed = GlobalConsent(Self, Rhs)

\* The filter x with other grouping-scoped masks.
GroupingVariants(x) ==
    {new(x.memberships, x.filter, bw, cw, x.belongs_to_grouping) :
        bw \in Masks \cup {U32_MAX}, cw \in Masks \cup {U32_MAX}}

C9_BuildersReplaceOneField ==
    /\ [][\A v \in Masks :
            /\ WithMemberships(v) =>
                  /\ a'.memberships = v
                  /\ a'.filter = a.filter
                  /\ a'.belongs_to_with_grouping = a.belongs_to_with_grouping
                  /\ a'.collides_with_with_grouping = a.collides_with_with_grouping
                  /\ a'.belongs_to_grouping = a.belongs_to_grouping
            /\ WithFilter(v) =>
                  /\ a'.filter = v
                  /\ a'.memberships = a.memberships
                  /\ a'.belongs_to_with_grouping = a.belongs_to_with_grouping
                  /\ a'.collides_with_with_grouping = a.collides_with_with_grouping
                  /\ a'.belongs_to_grouping = a.belongs_to_grouping]_vars
    /\ [](\A v \in Masks, w \in Masks :
            /\ with_filter(with_memberships(a, v), w)
                  = with_memberships(with_filter(a, w), v)
            /\ with_memberships(with_memberships(a, v), v) = with_memberships(a, v)
            /\ with_filter(with_filter(a, w), w) = with_filter(a, w))

\* all().with_memberships(0b10): only the memberships differ from all().
C9_Witness ==
    /\ op = "with_memberships"
    /\ a.memberships = Lit(2)
    /\ a.filter = U32_MAX
    /\ a.belongs_to_with_grouping = U32_MAX
    /\ a.collides_with_with_grouping = U32_MAX
    /\ a.belongs_to_grouping = U32_MAX

\* C10: default() == all(): the five fields of default() are u32::MAX, and a
\* test with default() as receiver returns what the test with all() returns.
C10_DefaultIsAll ==
    /\ op = "default" => (a = all /\ AllFieldsAre(a, U32_MAX))
    /\ (op = "test_ab" /\ a = default) => allowed = test(all, b)

\* default() was tested against a filter of another grouping and allowed.
C10_Witness ==
    /\ op = "test_ab"
    /\ a = default
    /\ AllFieldsAre(a, U32_MAX)
    /\ b.belongs_to_grouping # U32_MAX
    /\ allowed

====
